---- MODULE Spec2Model ----
(***************************************************************************)
(* Model of the log-anomaly-detector frontend: the severity utilities      *)
(* (frontend/src/utils/severity.ts) and the Visualizations page            *)
(* (pages/Visualizations.tsx: snapshot fetch, the three chart aggregates   *)
(* and the click-to-drill filters).                                        *)
(*                                                                         *)
(* Conventions.                                                            *)
(*  - Text (messages, service names) is a sequence of one-character        *)
(*    strings, so that toLowerCase and includes are computed character by  *)
(*    character.                                                           *)
(*  - A score is an integer number of hundredths (-50 is -0.5); a ten-     *)
(*    scale value is an integer number of tenths (78 is 7.8).              *)
(*  - A timestamp is an integer number of hours of local time since        *)
(*    1970-01-01 00:00 local (the source uses milliseconds).               *)
(***************************************************************************)
EXTENDS Integers, Sequences, FiniteSets, TLC

VARIABLES
    anomalies,      \* useState<LogEntry[]>([])            Visualizations:10
    loading,        \* useState(true)                      Visualizations:11
    error,          \* useState<string | null>(null)       Visualizations:12
    selectedLog,    \* useState<LogEntry | null>(null)     Visualizations:13 (<<>> is null, <<log>> a log)
    filteredLogs,   \* useState<LogEntry[]>([])            Visualizations:14
    mounted,        \* whether the mount effect (useEffect, []) has run
    pending,        \* number of api.getAnomalies() calls in flight
    stale,          \* how many of them were started before a call that has settled
    locale,         \* the runtime's default locale (toLocaleDateString)
    lastOp,         \* history: the handler that ran last and its argument
    score,          \* getSeverity / convertToTenScale argument
    isAnomaly,      \* getSeverity argument _isAnomaly
    severity,       \* value returned by getSeverity
    tenScale,       \* value returned by convertToTenScale
    message,        \* log.message inside the getCategoryData reducer
    category        \* local `category` of the getCategoryData reducer

vars == <<anomalies, loading, error, selectedLog, filteredLogs, mounted,
          pending, stale, locale, lastOp, score, isAnomaly, severity, tenScale,
          message, category>>

uiVars == <<anomalies, loading, error, selectedLog, filteredLogs, mounted,
            pending, stale, locale, lastOp>>
sevVars == <<score, isAnomaly, severity, tenScale>>
msgVars == <<message, category>>

Null == "null"

(***************************************************************************)
(* Bounds of the model.                                                    *)
(***************************************************************************)
MaxScore == 150        \* scores range over -1.50 .. 1.50 in steps of 0.01

(***************************************************************************)
(* severity.ts                                                             *)
(***************************************************************************)
Scores == (0 - MaxScore)..MaxScore

\* Array.prototype.map: the sequence f[1], ..., f[n] as a tuple.
Tuple(f, n) == SubSeq(f, 1, n)

Max(a, b) == IF a >= b THEN a ELSE b
Min(a, b) == IF a <= b THEN a ELSE b

\* Math.round on a value given as n hundredths: nearest integer, ties up.
MathRound100(n) == (n + 50) \div 100

\* Scores at which the IEEE-754 double value of tenScale * 10 lies just below
\* a tie although the real-number value is exactly on it: for 0.3,
\* (0.3 + 1) * 4.5 = 5.8500000000000005 and 10 - that = 4.1499999999999995.
FloatBelowTie == {30}

\* A plausible slip: the clamp to [-1, 1] left out.
convertToTenScale_NoClamp(rawScore) ==
    MathRound100(10000 - (rawScore + 100) * 45)

convertToTenScale(rawScore) ==
    LET clampedScore == Max(-100, Min(100, rawScore))
        \* tenScale * 10, in hundredths: 10 * (10 - (clamped + 1) * 4.5)
        tenScaleTimes10 == 10000 - (clampedScore + 100) * 45
    IN  IF clampedScore \in FloatBelowTie
        THEN MathRound100(tenScaleTimes10 - 1)
        ELSE MathRound100(tenScaleTimes10)

SevCritical == [level |-> "critical", label |-> "Critical", color |-> "#ef4444",
                bgColor |-> "rgba(239, 68, 68, 0.15)",
                borderColor |-> "rgba(239, 68, 68, 0.4)"]
SevSevere   == [level |-> "severe", label |-> "Severe", color |-> "#f97316",
                bgColor |-> "rgba(249, 115, 22, 0.15)",
                borderColor |-> "rgba(249, 115, 22, 0.3)"]
SevModerate == [level |-> "moderate", label |-> "Moderate", color |-> "#fbbf24",
                bgColor |-> "rgba(251, 191, 36, 0.15)",
                borderColor |-> "rgba(251, 191, 36, 0.3)"]
SevLow      == [level |-> "low", label |-> "Low", color |-> "#60a5fa",
                bgColor |-> "rgba(96, 165, 250, 0.15)",
                borderColor |-> "rgba(96, 165, 250, 0.3)"]
SevNormal   == [level |-> "normal", label |-> "Normal", color |-> "#6ee7b7",
                bgColor |-> "rgba(16, 185, 129, 0.15)",
                borderColor |-> "rgba(16, 185, 129, 0.3)"]

\* A plausible slip: the boundaries made inclusive (<= instead of <).
getSeverity_Inclusive(s, _isAnomaly) ==
    IF s <= -50 THEN SevCritical
    ELSE IF s <= -20 THEN SevSevere
    ELSE IF s <= -5 THEN SevModerate
    ELSE IF s <= 0 THEN SevLow
    ELSE SevNormal

\* A plausible slip: the moderate and low return values pasted in each
\* other's branch.
getSeverity_TiersSwapped(s, _isAnomaly) ==
    IF s < -50 THEN SevCritical
    ELSE IF s < -20 THEN SevSevere
    ELSE IF s < -5 THEN SevLow
    ELSE IF s < 0 THEN SevModerate
    ELSE SevNormal

\* A plausible slip: a record that is not flagged is reported as normal
\* whatever its score.
getSeverity_FlagAware(s, _isAnomaly) ==
    IF ~_isAnomaly THEN SevNormal
    ELSE IF s < -50 THEN SevCritical
    ELSE IF s < -20 THEN SevSevere
    ELSE IF s < -5 THEN SevModerate
    ELSE IF s < 0 THEN SevLow
    ELSE SevNormal

getSeverity(s, _isAnomaly) ==
    IF s < -50 THEN SevCritical
    ELSE IF s < -20 THEN SevSevere
    ELSE IF s < -5 THEN SevModerate
    ELSE IF s < 0 THEN SevLow
    ELSE SevNormal

(***************************************************************************)
(* Text: String.prototype.toLowerCase and String.prototype.includes        *)
(***************************************************************************)
UpperChars == <<"A", "B", "C", "D", "E", "F", "G", "H", "I", "J", "K", "L", "M", "N", "O", "P", "Q", "R", "S", "T", "U", "V", "W", "X", "Y", "Z">>
LowerChars == <<"a", "b", "c", "d", "e", "f", "g", "h", "i", "j", "k", "l", "m", "n", "o", "p", "q", "r", "s", "t", "u", "v", "w", "x", "y", "z">>

UpperSet == {UpperChars[i] : i \in DOMAIN UpperChars}

LowerOf == [c \in UpperSet |-> LowerChars[CHOOSE i \in DOMAIN UpperChars : UpperChars[i] = c]]

ToLowerChar(c) == IF c \in UpperSet THEN LowerOf[c] ELSE c

toLowerCase(str) == Tuple([i \in DOMAIN str |-> ToLowerChar(str[i])], Len(str))

includes(str, search) ==
    \E i \in 0..(Len(str) - Len(search)) :
        SubSeq(str, i + 1, i + Len(search)) = search

\* The keywords of the category rules (Visualizations.tsx:65-68, 87-91).
kwError       == <<"e", "r", "r", "o", "r">>
kwException   == <<"e", "x", "c", "e", "p", "t", "i", "o", "n">>
kwTimeout     == <<"t", "i", "m", "e", "o", "u", "t">>
kwConnection  == <<"c", "o", "n", "n", "e", "c", "t", "i", "o", "n">>
kwUnavailable == <<"u", "n", "a", "v", "a", "i", "l", "a", "b", "l", "e">>
kwFail        == <<"f", "a", "i", "l">>

\* The vocabulary messages are built from (mixed case on purpose).
wError       == <<"E", "r", "r", "o", "r">>
wException   == <<"E", "X", "C", "E", "P", "T", "I", "O", "N">>
wTimeout     == <<"t", "i", "m", "e", "o", "u", "t">>
wConnection  == <<"C", "o", "n", "n", "e", "c", "t", "i", "o", "n">>
wUnavailable == <<"u", "n", "a", "v", "a", "i", "l", "a", "b", "l", "e">>
wFailed      == <<"f", "a", "i", "l", "e", "d">>
wOk          == <<"o", "k">>
Vocabulary == {wError, wException, wTimeout, wConnection, wUnavailable, wFailed, wOk}

RECURSIVE JoinWords(_)
JoinWords(ws) ==
    IF Len(ws) = 0 THEN <<>>
    ELSE IF Len(ws) = 1 THEN ws[1]
    ELSE ws[1] \o <<" ">> \o JoinWords(Tail(ws))

MaxWords == 2          \* a message of the classifier harness has at most this many words

RECURSIVE WordSeqs(_)
WordSeqs(n) ==
    IF n = 0 THEN {<<>>}
    ELSE WordSeqs(n - 1) \cup {Append(ws, w) : ws \in WordSeqs(n - 1), w \in Vocabulary}

Messages == {JoinWords(ws) : ws \in WordSeqs(MaxWords)}

(***************************************************************************)
(* The category rules of the getCategoryData reducer                       *)
(***************************************************************************)
Categories == {"Errors", "Timeouts", "Connection Issues", "Failures", "Other"}

\* A plausible slip: the connection rule tested before the error rule.
CategoryOfMessage_ConnectionFirst(logMessage) ==
    LET msg == toLowerCase(logMessage)
    IN  IF includes(msg, kwConnection) \/ includes(msg, kwUnavailable) THEN "Connection Issues"
        ELSE IF includes(msg, kwError) \/ includes(msg, kwException) THEN "Errors"
        ELSE IF includes(msg, kwTimeout) THEN "Timeouts"
        ELSE IF includes(msg, kwFail) THEN "Failures"
        ELSE "Other"

\* A plausible slip: the 'exception' keyword left out of the error rule.
CategoryOfMessage_NoException(logMessage) ==
    LET msg == toLowerCase(logMessage)
    IN  IF includes(msg, kwError) THEN "Errors"
        ELSE IF includes(msg, kwTimeout) THEN "Timeouts"
        ELSE IF includes(msg, kwConnection) \/ includes(msg, kwUnavailable) THEN "Connection Issues"
        ELSE IF includes(msg, kwFail) THEN "Failures"
        ELSE "Other"

CategoryOfMessage(logMessage) ==
    LET msg == toLowerCase(logMessage)
    IN  IF includes(msg, kwError) \/ includes(msg, kwException) THEN "Errors"
        ELSE IF includes(msg, kwTimeout) THEN "Timeouts"
        ELSE IF includes(msg, kwConnection) \/ includes(msg, kwUnavailable) THEN "Connection Issues"
        ELSE IF includes(msg, kwFail) THEN "Failures"
        ELSE "Other"

(***************************************************************************)
(* Values the variables hold where a specification does not use them       *)
(***************************************************************************)
NoOp == [op |-> "none", arg |-> Null]

UIConstructed ==
    /\ anomalies = <<>>
    /\ loading = TRUE
    /\ error = Null
    /\ selectedLog = <<>>
    /\ filteredLogs = <<>>
    /\ mounted = FALSE
    /\ pending = 0
    /\ stale = 0
    /\ lastOp = NoOp

SevUnused ==
    /\ score = 0
    /\ isAnomaly = FALSE
    /\ severity = Null
    /\ tenScale = Null

MsgUnused ==
    /\ message = <<>>
    /\ category = "Other"

(***************************************************************************)
(* SpecSev: getSeverity and convertToTenScale applied to a drawn score     *)
(***************************************************************************)
InitSev ==
    /\ UIConstructed
    /\ locale = "en-US"
    /\ MsgUnused
    /\ score \in Scores
    /\ isAnomaly \in BOOLEAN
    /\ severity = Null
    /\ tenScale = Null

CallGetSeverity ==
    /\ severity' = getSeverity(score, isAnomaly)
    /\ lastOp' = [op |-> "getSeverity", arg |-> score]
    /\ UNCHANGED <<anomalies, loading, error, selectedLog, filteredLogs, mounted,
                   pending, stale, locale, score, isAnomaly, tenScale, message, category>>

CallConvertToTenScale ==
    /\ tenScale' = convertToTenScale(score)
    /\ lastOp' = [op |-> "convertToTenScale", arg |-> score]
    /\ UNCHANGED <<anomalies, loading, error, selectedLog, filteredLogs, mounted,
                   pending, stale, locale, score, isAnomaly, severity, message, category>>

NextSev == CallGetSeverity \/ CallConvertToTenScale

SpecSev == InitSev /\ [][NextSev]_vars

(***************************************************************************)
(* SpecMsg: the category rules applied to a drawn message                  *)
(***************************************************************************)
InitMsg ==
    /\ UIConstructed
    /\ locale = "en-US"
    /\ SevUnused
    /\ message \in Messages
    /\ category = "Other"

ClassifyMessage ==
    /\ category' = CategoryOfMessage(message)
    /\ lastOp' = [op |-> "CategoryOfMessage", arg |-> message]
    /\ UNCHANGED <<anomalies, loading, error, selectedLog, filteredLogs, mounted,
                   pending, stale, locale, score, isAnomaly, severity, tenScale, message>>

NextMsg == ClassifyMessage

SpecMsg == InitMsg /\ [][NextMsg]_vars

(***************************************************************************)
(* Claims about severity.ts (checked under SpecSev)                        *)
(***************************************************************************)
SeverityTiers == {SevCritical, SevSevere, SevModerate, SevLow, SevNormal}

\* Rank of a tier in the order critical > severe > moderate > low > normal.
Rank(level) ==
    CASE level = "critical" -> 4
      [] level = "severe"   -> 3
      [] level = "moderate" -> 2
      [] level = "low"      -> 1
      [] level = "normal"   -> 0

\* C3: getSeverity assigns every score exactly one tier: critical below -0.5,
\* severe on [-0.5, -0.2), moderate on [-0.2, -0.05), low on [-0.05, 0) and
\* normal from 0 on, so each boundary value falls into the less severe tier,
\* also for scores outside [-1, 1].
C3_TierByThreshold ==
    lastOp.op = "getSeverity" =>
        /\ severity \in SeverityTiers
        /\ (severity.level = "critical") = (score < -50)
        /\ (severity.level = "severe")   = (-50 <= score /\ score < -20)
        /\ (severity.level = "moderate") = (-20 <= score /\ score < -5)
        /\ (severity.level = "low")      = (-5 <= score /\ score < 0)
        /\ (severity.level = "normal")   = (0 <= score)

C3_Witness ==
    /\ lastOp.op = "getSeverity"
    /\ score = -50
    /\ severity.level = "severe"

\* C4: a lower score never gets a less severe tier: for the classified score
\* and every other score s2, score < s2 implies tier(score) >= tier(s2), and
\* s2 < score implies tier(s2) >= tier(score).
C4_TierMonotone ==
    lastOp.op = "getSeverity" =>
        \A s2 \in Scores :
            /\ score < s2 => Rank(severity.level) >= Rank(getSeverity(s2, isAnomaly).level)
            /\ s2 < score => Rank(getSeverity(s2, isAnomaly).level) >= Rank(severity.level)

C4_Witness ==
    /\ lastOp.op = "getSeverity"
    /\ score = -6
    /\ severity.level = "moderate"
    /\ getSeverity(-5, isAnomaly).level = "low"

ContainsCI(str, kw) ==
    \E i \in 0..(Len(str) - Len(kw)) :
        \A j \in 1..Len(kw) :
            \/ str[i + j] = kw[j]
            \/ \E u \in DOMAIN UpperChars : UpperChars[u] = str[i + j] /\ LowerChars[u] = kw[j]

\* C2: every message gets exactly one of the five categories, decided by the
\* first rule that matches in the order Errors, Timeouts, Connection Issues,
\* Failures, Other, case-insensitively; a message with both "error" and
\* "connection" is Errors.
C2_FirstMatchWins ==
    lastOp.op = "CategoryOfMessage" =>
        LET isErr  == ContainsCI(message, kwError) \/ ContainsCI(message, kwException)
            isTime == ContainsCI(message, kwTimeout)
            isConn == ContainsCI(message, kwConnection) \/ ContainsCI(message, kwUnavailable)
            isFail == ContainsCI(message, kwFail)
        IN  /\ category \in Categories
            /\ (category = "Errors") = isErr
            /\ (category = "Timeouts") = (~isErr /\ isTime)
            /\ (category = "Connection Issues") = (~isErr /\ ~isTime /\ isConn)
            /\ (category = "Failures") = (~isErr /\ ~isTime /\ ~isConn /\ isFail)
            /\ (category = "Other") = (~isErr /\ ~isTime /\ ~isConn /\ ~isFail)

C2_Witness ==
    /\ lastOp.op = "CategoryOfMessage"
    /\ ContainsCI(message, kwError)
    /\ ContainsCI(message, kwConnection)
    /\ category = "Errors"

(***************************************************************************)
(* JavaScript objects used as maps ({} as Record<string, number>)          *)
(*                                                                         *)
(* An object is the sequence of its own [key, value] properties in         *)
(* creation order.  Object.entries lists the keys that are array indices   *)
(* (canonical decimal integers) first, in ascending numeric order, and the *)
(* other string keys after them in creation order.                         *)
(***************************************************************************)
Digits == <<"0", "1", "2", "3", "4", "5", "6", "7", "8", "9">>

IsDigit(c) == \E d \in DOMAIN Digits : Digits[d] = c

DigitValue(c) == (CHOOSE d \in DOMAIN Digits : Digits[d] = c) - 1

RECURSIVE DecimalValue(_)
DecimalValue(str) ==
    IF Len(str) = 0 THEN 0
    ELSE 10 * DecimalValue(SubSeq(str, 1, Len(str) - 1)) + DigitValue(str[Len(str)])

\* Text keys of at most 9 digits are considered: every such canonical
\* decimal is below 2^32 - 1 and so is an array index.
IsArrayIndex(key) ==
    /\ Len(key) > 0
    /\ Len(key) <= 9
    /\ \A i \in DOMAIN key : IsDigit(key[i])
    /\ (Len(key) > 1 => key[1] # "0")

\* reduce((acc, log) => { acc[k] = (acc[k] || 0) + 1; return acc }, {}) over
\* the keys k of the records, in order: the property of a key is created
\* when the key first occurs (acc[k] is undefined, so the count starts from
\* 0) and is incremented in place at each later occurrence.  The result has
\* one property per distinct key, in order of first occurrence, holding the
\* number of occurrences.
CountByKey(keys) ==
    LET idx    == [i \in DOMAIN keys |-> i]
        firsts == SelectSeq(idx, LAMBDA i : \A j \in 1..(i - 1) : keys[j] # keys[i])
    IN  Tuple([n \in DOMAIN firsts |->
                [key   |-> keys[firsts[n]],
                 value |-> Cardinality({j \in DOMAIN keys : keys[j] = keys[firsts[n]]})]],
              Len(firsts))

\* Array.prototype.sort with a consistent comparator is a stable sort: the
\* element at index i goes behind every element with a smaller sort key and
\* every earlier element with the same key.  rank[i] is the integer the
\* comparator orders seq[i] by (ascending).
StableSort(seq, rank) ==
    LET pos(i) == 1 + Cardinality({j \in DOMAIN seq :
                        rank[j] < rank[i] \/ (rank[j] = rank[i] /\ j < i)})
    IN  Tuple([p \in DOMAIN seq |-> seq[CHOOSE i \in DOMAIN seq : pos(i) = p]], Len(seq))

\* Object.entries of an object whose keys are never array indices
\* (category names, date strings).
ObjectEntriesPlain(obj) == obj

\* Object.entries of an object whose keys are arbitrary text.
ObjectEntriesText(obj) ==
    LET idx   == SelectSeq(obj, LAMBDA e : IsArrayIndex(e.key))
        other == SelectSeq(obj, LAMBDA e : ~IsArrayIndex(e.key))
    IN  StableSort(idx, Tuple([i \in DOMAIN idx |-> DecimalValue(idx[i].key)], Len(idx))) \o other

\* Array.prototype.slice(0, n) and slice(-n)
SliceFirst(seq, n) == SubSeq(seq, 1, Min(n, Len(seq)))
SliceLast(seq, n) == SubSeq(seq, Max(1, Len(seq) - n + 1), Len(seq))

(***************************************************************************)
(* Dates: new Date(ts).toLocaleDateString() and new Date(text).getTime()   *)
(***************************************************************************)
\* Days since 1970-01-01 of the civil date y-m-d (proleptic Gregorian).
DaysFromCivil(y, m, d) ==
    LET yy  == IF m <= 2 THEN y - 1 ELSE y
        era == yy \div 400
        yoe == yy - era * 400
        mp  == IF m > 2 THEN m - 3 ELSE m + 9
        doy == (153 * mp + 2) \div 5 + d - 1
        doe == yoe * 365 + yoe \div 4 - yoe \div 100 + doy
    IN  era * 146097 + doe - 719468

\* The civil date of day z since 1970-01-01.
CivilFromDays(z) ==
    LET zz  == z + 719468
        era == zz \div 146097
        doe == zz - era * 146097
        yoe == (doe - doe \div 1460 + doe \div 36524 - doe \div 146096) \div 365
        doy == doe - (365 * yoe + yoe \div 4 - yoe \div 100)
        mp  == (5 * doy + 2) \div 153
        d   == doy - (153 * mp + 2) \div 5 + 1
        m   == IF mp < 10 THEN mp + 3 ELSE mp - 9
        y   == yoe + era * 400 + (IF m <= 2 THEN 1 ELSE 0)
    IN  [year |-> y, month |-> m, day |-> d]

Locales == {"en-US", "en-GB"}

\* new Date(timestamp).toLocaleDateString(): the date text in the runtime's
\* default locale, as its three numeric fields: "M/D/YYYY" for en-US,
\* "DD/MM/YYYY" for en-GB.
toLocaleDateString(timestamp, loc) ==
    LET c == CivilFromDays(timestamp \div 24)
    IN  IF loc = "en-US" THEN <<c.month, c.day, c.year>>
        ELSE <<c.day, c.month, c.year>>

\* new Date(text).getTime() for text of the form "a/b/yyyy": the engines'
\* fallback parser reads month/day/year whatever the locale that produced the
\* text, and yields an Invalid Date (getTime() is NaN) for a month above 12.
DateParse(text) ==
    IF text[1] \in 1..12 /\ text[2] \in 1..31
    THEN DaysFromCivil(text[3], text[1], text[2]) * 24
    ELSE "NaN"

(***************************************************************************)
(* Visualizations.tsx: the chart aggregates                                *)
(***************************************************************************)
TopServices == 5
LastDays == 10

getTimeSeriesData(anoms, loc) ==
    LET grouped == CountByKey(Tuple([i \in DOMAIN anoms |-> toLocaleDateString(anoms[i].timestamp, loc)], Len(anoms)))
        entries == ObjectEntriesPlain(grouped)
        mapped  == Tuple([i \in DOMAIN entries |-> [date |-> entries[i].key, count |-> entries[i].value]], Len(entries))
        sorted  == StableSort(mapped, Tuple([i \in DOMAIN mapped |-> DateParse(mapped[i].date)], Len(mapped)))
    IN  SliceLast(sorted, LastDays)

\* A plausible slip: the sort left ascending (a.count - b.count).
getServiceData_Ascending(anoms) ==
    LET grouped == CountByKey(Tuple([i \in DOMAIN anoms |-> anoms[i].serviceName], Len(anoms)))
        entries == ObjectEntriesText(grouped)
        mapped  == Tuple([i \in DOMAIN entries |-> [service |-> entries[i].key, count |-> entries[i].value]], Len(entries))
        sorted  == StableSort(mapped, Tuple([i \in DOMAIN mapped |-> mapped[i].count], Len(mapped)))
    IN  SliceFirst(sorted, TopServices)

getServiceData(anoms) ==
    LET grouped == CountByKey(Tuple([i \in DOMAIN anoms |-> anoms[i].serviceName], Len(anoms)))
        entries == ObjectEntriesText(grouped)
        mapped  == Tuple([i \in DOMAIN entries |-> [service |-> entries[i].key, count |-> entries[i].value]], Len(entries))
        sorted  == StableSort(mapped, Tuple([i \in DOMAIN mapped |-> 0 - mapped[i].count], Len(mapped)))
    IN  SliceFirst(sorted, TopServices)

\* A plausible slip: the reducer overwrites the count instead of incrementing it.
getCategoryData_NoIncrement(anoms) ==
    LET categories == CountByKey(Tuple([i \in DOMAIN anoms |-> CategoryOfMessage(anoms[i].message)], Len(anoms)))
        entries == ObjectEntriesPlain(categories)
    IN  Tuple([i \in DOMAIN entries |-> [name |-> entries[i].key, value |-> 1]], Len(entries))

getCategoryData(anoms) ==
    LET categories == CountByKey(Tuple([i \in DOMAIN anoms |-> CategoryOfMessage(anoms[i].message)], Len(anoms)))
        entries == ObjectEntriesPlain(categories)
    IN  Tuple([i \in DOMAIN entries |-> [name |-> entries[i].key, value |-> entries[i].value]], Len(entries))

(***************************************************************************)
(* Visualizations.tsx: the drill-down filters                              *)
(***************************************************************************)
\* a => a.serviceName === serviceName
ServiceFilter(a, serviceName) == a.serviceName = serviceName

\* A plausible slip: the 'unavailable' keyword left out of the filter's
\* connection rule.
CategoryFilter_ConnectionOnly(a, cat) ==
    LET msg == toLowerCase(a.message)
    IN  IF cat = "Errors" /\ (includes(msg, kwError) \/ includes(msg, kwException)) THEN TRUE
        ELSE IF cat = "Timeouts" /\ includes(msg, kwTimeout) THEN TRUE
        ELSE IF cat = "Connection Issues" /\ includes(msg, kwConnection) THEN TRUE
        ELSE IF cat = "Failures" /\ includes(msg, kwFail) THEN TRUE
        ELSE IF cat = "Other"
             THEN /\ ~includes(msg, kwError) /\ ~includes(msg, kwException)
                  /\ ~includes(msg, kwTimeout) /\ ~includes(msg, kwConnection)
                  /\ ~includes(msg, kwUnavailable) /\ ~includes(msg, kwFail)
        ELSE FALSE

\* The predicate of handleCategoryClick's filter.
CategoryFilter(a, cat) ==
    LET msg == toLowerCase(a.message)
    IN  IF cat = "Errors" /\ (includes(msg, kwError) \/ includes(msg, kwException)) THEN TRUE
        ELSE IF cat = "Timeouts" /\ includes(msg, kwTimeout) THEN TRUE
        ELSE IF cat = "Connection Issues" /\ (includes(msg, kwConnection) \/ includes(msg, kwUnavailable)) THEN TRUE
        ELSE IF cat = "Failures" /\ includes(msg, kwFail) THEN TRUE
        ELSE IF cat = "Other"
             THEN /\ ~includes(msg, kwError) /\ ~includes(msg, kwException)
                  /\ ~includes(msg, kwTimeout) /\ ~includes(msg, kwConnection)
                  /\ ~includes(msg, kwUnavailable) /\ ~includes(msg, kwFail)
        ELSE FALSE

\* Which view the component renders (Visualizations.tsx:97-134).
ChartsShown == ~loading /\ error = Null /\ Len(anomalies) > 0

\* A plausible slip: the handler narrows the list already shown instead of
\* filtering the snapshot.
handleServiceClick_FromFiltered(serviceName) ==
    /\ ChartsShown
    /\ filteredLogs' = SelectSeq(filteredLogs, LAMBDA a : ServiceFilter(a, serviceName))
    /\ lastOp' = [op |-> "handleServiceClick", arg |-> serviceName]
    /\ UNCHANGED <<anomalies, loading, error, selectedLog, mounted, pending, stale, locale>>
    /\ UNCHANGED <<sevVars, msgVars>>

handleServiceClick(serviceName) ==
    /\ ChartsShown
    /\ filteredLogs' = SelectSeq(anomalies, LAMBDA a : ServiceFilter(a, serviceName))
    /\ lastOp' = [op |-> "handleServiceClick", arg |-> serviceName]
    /\ UNCHANGED <<anomalies, loading, error, selectedLog, mounted, pending, stale, locale>>
    /\ UNCHANGED <<sevVars, msgVars>>

handleCategoryClick(cat) ==
    /\ ChartsShown
    /\ filteredLogs' = SelectSeq(anomalies, LAMBDA a : CategoryFilter(a, cat))
    /\ lastOp' = [op |-> "handleCategoryClick", arg |-> cat]
    /\ UNCHANGED <<anomalies, loading, error, selectedLog, mounted, pending, stale, locale>>
    /\ UNCHANGED <<sevVars, msgVars>>

(***************************************************************************)
(* Snapshots the aggregates are checked on                                 *)
(***************************************************************************)
MaxCatLen == 3         \* records of a snapshot that varies the message
MaxSvcLen == 3         \* free records of a snapshot that varies the service name
MaxTimeLen == 2        \* free records of a snapshot that varies the timestamp

RECURSIVE SeqsUpTo(_, _)
SeqsUpTo(S, n) ==
    IF n = 0 THEN {<<>>}
    ELSE SeqsUpTo(S, n - 1) \cup {Append(q, x) : q \in SeqsUpTo(S, n - 1), x \in S}

Reverse(seq) == [i \in DOMAIN seq |-> seq[Len(seq) + 1 - i]]

\* The hour h of the civil date y-m-d, as a timestamp.
At(y, m, d, h) == DaysFromCivil(y, m, d) * 24 + h

svcAuth == <<"a", "u", "t", "h">>
svcDb   == <<"d", "b">>
svcWeb  == <<"w", "e", "b">>
svc10   == <<"1", "0">>
svc2    == <<"2">>
svc07   == <<"0", "7">>
ServiceNames == {svcAuth, svcDb, svcWeb, svc10, svc2, svc07}
ServiceRoster == <<svcAuth, svc10, svcDb, svc2, svcWeb, svc07>>

CategoryMessages ==
    { JoinWords(<<wError>>), JoinWords(<<wTimeout, wError>>), JoinWords(<<wTimeout>>),
      JoinWords(<<wConnection, wFailed>>), JoinWords(<<wUnavailable>>),
      JoinWords(<<wFailed>>), JoinWords(<<wOk>>) }

TimePool == {At(2026, 11, 1, 8), At(2026, 11, 7, 9), At(2026, 11, 7, 23), At(2026, 12, 1, 0)}
TimeRoster ==
    << At(2026, 11, 7, 10), At(2026, 11, 8, 10), At(2026, 11, 9, 10), At(2026, 11, 10, 10),
       At(2026, 11, 11, 10), At(2026, 11, 12, 10), At(2026, 12, 1, 10), At(2026, 12, 2, 10),
       At(2026, 12, 3, 10), At(2026, 12, 4, 10), At(2026, 12, 5, 10) >>

\* The record at position i of a snapshot; its id is its position.
LogEntry(i, serviceName, msg, timestamp) ==
    [id |-> i, serviceName |-> serviceName, message |-> msg, timestamp |-> timestamp,
     isAnomaly |-> TRUE, score |-> -30]

CategorySnapshots ==
    { [i \in DOMAIN ms |-> LogEntry(i, svcAuth, ms[i], At(2026, 11, 7, 9))] :
        ms \in SeqsUpTo(CategoryMessages, MaxCatLen) }

ServiceSnapshots ==
    { [i \in DOMAIN ns |-> LogEntry(i, ns[i], JoinWords(<<wError>>), At(2026, 11, 7, 9))] :
        ns \in { q \o t : q \in SeqsUpTo(ServiceNames, MaxSvcLen),
                          t \in {<<>>, ServiceRoster, Reverse(ServiceRoster)} } }

TimeSnapshots ==
    { [i \in DOMAIN ts |-> LogEntry(i, svcAuth, JoinWords(<<wError>>), ts[i])] :
        ts \in { q \o t : q \in SeqsUpTo(TimePool, MaxTimeLen),
                          t \in {<<>>, TimeRoster, Reverse(TimeRoster)} } }

(***************************************************************************)
(* SpecAgg: the page holding a fetched snapshot, its charts rendered and   *)
(* their buckets clicked                                                   *)
(***************************************************************************)
InitAgg ==
    /\ anomalies \in CategorySnapshots \cup ServiceSnapshots \cup TimeSnapshots
    /\ loading = FALSE
    /\ error = Null
    /\ selectedLog = <<>>
    /\ filteredLogs = <<>>
    /\ mounted = TRUE
    /\ pending = 0
    /\ stale = 0
    /\ locale \in Locales
    /\ lastOp = NoOp
    /\ SevUnused
    /\ MsgUnused

\* A bar of the service chart is clicked (Visualizations.tsx:226-230).
ClickServiceBar ==
    LET serviceData == getServiceData(anomalies)
    IN  \E i \in DOMAIN serviceData : handleServiceClick(serviceData[i].service)

\* A slice of the category pie is clicked (Visualizations.tsx:198).
ClickCategorySlice ==
    LET categoryData == getCategoryData(anomalies)
    IN  \E i \in DOMAIN categoryData : handleCategoryClick(categoryData[i].name)

NextAgg == ClickServiceBar \/ ClickCategorySlice

SpecAgg == InitAgg /\ [][NextAgg]_vars

(***************************************************************************)
(* Spec: the Visualizations page from construction on: mount, fetches,     *)
(* retries, refreshes, bucket clicks, the log detail modal                 *)
(***************************************************************************)
MaxSnapshotLen == 3    \* records of a snapshot the backend serves to the page

\* The records the backend holds; ids are unique.
BackendRecords ==
    { [LogEntry(1, svcAuth, JoinWords(<<wError>>), At(2026, 11, 7, 9)) EXCEPT !.score = -60],
      [LogEntry(2, svcAuth, JoinWords(<<wTimeout, wError>>), At(2026, 12, 1, 0)) EXCEPT !.score = 20, !.isAnomaly = FALSE],
      [LogEntry(3, svcDb, JoinWords(<<wTimeout>>), At(2026, 11, 8, 10)) EXCEPT !.score = -10],
      [LogEntry(4, svc10, JoinWords(<<wOk>>), At(2026, 11, 1, 8)) EXCEPT !.score = -30] }

\* What api.getAnomalies() can resolve to: the records in any order, no
\* record twice.
BackendSnapshots ==
    { q \in SeqsUpTo(BackendRecords, MaxSnapshotLen) :
        \A i, j \in DOMAIN q : q[i].id = q[j].id => i = j }

FetchError == "Failed to fetch anomalies. Make sure the backend is running."

Init ==
    /\ UIConstructed
    /\ locale \in Locales
    /\ SevUnused
    /\ MsgUnused

\* fetchAnomalies up to its await: setLoading(true), api.getAnomalies() issued.
fetchAnomalies(caller) ==
    /\ loading' = TRUE
    /\ pending' = pending + 1
    /\ lastOp' = [op |-> "fetchAnomalies", arg |-> caller]
    /\ UNCHANGED <<anomalies, error, selectedLog, filteredLogs, stale, locale>>
    /\ UNCHANGED <<sevVars, msgVars>>

\* useEffect(() => { fetchAnomalies() }, [])
Mount ==
    /\ ~mounted
    /\ mounted' = TRUE
    /\ fetchAnomalies("useEffect")

\* A plausible slip: the header row with the Refresh button rendered above
\* the loading view as well.
ClickRefresh_ShownWhileLoading ==
    /\ error = Null
    /\ Len(anomalies) > 0
    /\ UNCHANGED mounted
    /\ fetchAnomalies("Refresh")

\* The Refresh button, rendered with the charts.
ClickRefresh ==
    /\ ChartsShown
    /\ UNCHANGED mounted
    /\ fetchAnomalies("Refresh")

\* The error view (with its Retry button) is what the page renders.
ErrorShown == ~loading /\ error # Null

\* The Retry button, rendered in the error view.
ClickRetry ==
    /\ ErrorShown
    /\ UNCHANGED mounted
    /\ fetchAnomalies("Retry")

\* The calls in flight are numbered 1..pending from the oldest; the first
\* `stale` of them were started before a call that has already settled.
\* When call k settles, every older call still in flight becomes stale.
StaleAfter(k) == IF k <= stale THEN stale - 1 ELSE k - 1

\* A plausible slip: a guard that drops the response of a call that a later
\* call has already overtaken.
fetchAnomaliesResolved_IgnoresStale(k, data) ==
    /\ k \in 1..pending
    /\ IF k <= stale
       THEN UNCHANGED <<anomalies, error, loading>>
       ELSE /\ anomalies' = data
            /\ error' = Null
            /\ loading' = FALSE
    /\ pending' = pending - 1
    /\ stale' = StaleAfter(k)
    /\ lastOp' = [op |-> "fetchAnomaliesResolved", arg |-> [stale |-> k <= stale, data |-> data]]
    /\ UNCHANGED <<selectedLog, filteredLogs, mounted, locale>>
    /\ UNCHANGED <<sevVars, msgVars>>

\* fetchAnomalies after its await, call k having resolved with data:
\* setAnomalies(data), setError(null), and in finally setLoading(false).
fetchAnomaliesResolved(k, data) ==
    /\ k \in 1..pending
    /\ anomalies' = data
    /\ error' = Null
    /\ loading' = FALSE
    /\ pending' = pending - 1
    /\ stale' = StaleAfter(k)
    /\ lastOp' = [op |-> "fetchAnomaliesResolved", arg |-> [stale |-> k <= stale, data |-> data]]
    /\ UNCHANGED <<selectedLog, filteredLogs, mounted, locale>>
    /\ UNCHANGED <<sevVars, msgVars>>

\* A plausible slip: the catch block also drops the snapshot held.
fetchAnomaliesRejected_ClearsSnapshot(k) ==
    /\ k \in 1..pending
    /\ anomalies' = <<>>
    /\ error' = FetchError
    /\ loading' = FALSE
    /\ pending' = pending - 1
    /\ stale' = StaleAfter(k)
    /\ lastOp' = [op |-> "fetchAnomaliesRejected", arg |-> [stale |-> k <= stale]]
    /\ UNCHANGED <<selectedLog, filteredLogs, mounted, locale>>
    /\ UNCHANGED <<sevVars, msgVars>>

\* fetchAnomalies after its await, call k having thrown: setError(message),
\* and in finally setLoading(false).
fetchAnomaliesRejected(k) ==
    /\ k \in 1..pending
    /\ error' = FetchError
    /\ loading' = FALSE
    /\ pending' = pending - 1
    /\ stale' = StaleAfter(k)
    /\ lastOp' = [op |-> "fetchAnomaliesRejected", arg |-> [stale |-> k <= stale]]
    /\ UNCHANGED <<anomalies, selectedLog, filteredLogs, mounted, locale>>
    /\ UNCHANGED <<sevVars, msgVars>>

\* A card of the filtered-logs panel is clicked: setSelectedLog(log).
ClickLogCard ==
    /\ ChartsShown
    /\ \E i \in DOMAIN SliceFirst(filteredLogs, 10) :
           selectedLog' = <<filteredLogs[i]>>
    /\ lastOp' = [op |-> "setSelectedLog", arg |-> Null]
    /\ UNCHANGED <<anomalies, loading, error, filteredLogs, mounted, pending, stale, locale>>
    /\ UNCHANGED <<sevVars, msgVars>>

\* LogDetailModal's onClose: setSelectedLog(null).
CloseModal ==
    /\ ChartsShown
    /\ selectedLog # <<>>
    /\ selectedLog' = <<>>
    /\ lastOp' = [op |-> "onClose", arg |-> Null]
    /\ UNCHANGED <<anomalies, loading, error, filteredLogs, mounted, pending, stale, locale>>
    /\ UNCHANGED <<sevVars, msgVars>>

Next ==
    \/ Mount
    \/ ClickRefresh
    \/ ClickRetry
    \/ \E k \in 1..pending, data \in BackendSnapshots : fetchAnomaliesResolved(k, data)
    \/ \E k \in 1..pending : fetchAnomaliesRejected(k)
    \/ ClickServiceBar
    \/ ClickCategorySlice
    \/ ClickLogCard
    \/ CloseModal

Spec == Init /\ [][Next]_vars

(***************************************************************************)
(* Claims about the chart aggregates (checked under SpecAgg)               *)
(***************************************************************************)
RECURSIVE SumOf(_, _)
\* The sum of field(b) over the buckets b of data.
SumOf(data, n) == IF n = 0 THEN 0 ELSE SumOf(data, n - 1) + data[n].value

\* The value shown for the bucket called name (0 when there is none).
CategoryCount(data, name) ==
    IF \E i \in DOMAIN data : data[i].name = name
    THEN data[CHOOSE i \in DOMAIN data : data[i].name = name].value
    ELSE 0

\* C1 (as claimed): after a click on category bucket c the filtered list is
\* as long as the count the category aggregate reports for c.
C1_FilteredLengthIsBucketCount ==
    lastOp.op = "handleCategoryClick" =>
        Len(filteredLogs) = CategoryCount(getCategoryData(anomalies), lastOp.arg)

\* C6: the category buckets' counts sum to the number of records, every
\* category some record is classified into has a bucket, no bucket is empty,
\* and an empty snapshot has no buckets.
C6_CategoryCountsPartition ==
    LET data == getCategoryData(anomalies)
    IN  /\ SumOf(data, Len(data)) = Len(anomalies)
        /\ \A i \in DOMAIN anomalies :
               \E b \in DOMAIN data : data[b].name = CategoryOfMessage(anomalies[i].message)
        /\ \A b \in DOMAIN data : data[b].value > 0
        /\ \A b, c \in DOMAIN data : data[b].name = data[c].name => b = c
        /\ (anomalies = <<>> => data = <<>>)

C6_Witness ==
    LET data == getCategoryData(anomalies)
    IN  /\ ChartsShown
        /\ Len(anomalies) = 3
        /\ Len(data) = 2
        /\ \E b \in DOMAIN data : data[b].name = "Other" /\ data[b].value = 2

\* The number of records of the snapshot with this service name.
ServiceCount(anoms, name) == Cardinality({i \in DOMAIN anoms : anoms[i].serviceName = name})

\* The position at which this service name first occurs in the snapshot.
FirstSeen(anoms, name) == CHOOSE i \in DOMAIN anoms :
    /\ anoms[i].serviceName = name
    /\ \A j \in 1..(i - 1) : anoms[j].serviceName # name

ServicesOf(anoms) == {anoms[i].serviceName : i \in DOMAIN anoms}

C8_TiesKeepFirstSeenOrder ==
    LET data == getServiceData(anomalies)
        shown == {data[b].service : b \in DOMAIN data}
    IN  /\ \A b, c \in DOMAIN data :
               (b < c /\ data[b].count = data[c].count) =>
                   FirstSeen(anomalies, data[b].service) < FirstSeen(anomalies, data[c].service)
        /\ \A n \in ServicesOf(anomalies) \ shown :
               \A b \in DOMAIN data :
                   data[b].count = ServiceCount(anomalies, n) =>
                       FirstSeen(anomalies, data[b].service) < FirstSeen(anomalies, n)

\* The calendar days (days since 1970-01-01) on which the snapshot has records.
DaysOf(anoms) == {anoms[i].timestamp \div 24 : i \in DOMAIN anoms}

\* The calendar day a bucket's date text was produced from.
BucketDay(anoms, loc, text) ==
    CHOOSE d \in DaysOf(anoms) : toLocaleDateString(d * 24, loc) = text

\* This bucket sequence is what C9 describes for the snapshot.
TimeSeriesAsClaimed(anoms, loc, data) ==
    LET days == DaysOf(anoms)
        dayOf(b) == BucketDay(anoms, loc, data[b].date)
        shown == {dayOf(b) : b \in DOMAIN data}
    IN  /\ Len(data) <= 10
        /\ \A b \in DOMAIN data : \E d \in days : toLocaleDateString(d * 24, loc) = data[b].date
        /\ \A b \in 1..(Len(data) - 1) : dayOf(b) < dayOf(b + 1)
        /\ Cardinality(shown) = IF Cardinality(days) > 10 THEN 10 ELSE Cardinality(days)
        /\ \A d \in days \ shown : \A e \in shown : d < e
        /\ \A b \in DOMAIN data :
               data[b].count = Cardinality({i \in DOMAIN anoms : anoms[i].timestamp \div 24 = dayOf(b)})

\* C9 (as claimed): the time series has at most 10 buckets, one per calendar
\* date, in strictly ascending chronological order; they are the 10 most
\* recent dates when there are more, each with its number of records.
C9_LastTenDatesAscending ==
    TimeSeriesAsClaimed(anomalies, locale, getTimeSeriesData(anomalies, locale))

\* Sanity of the date model: where text is written as month/day/year the
\* series is as C9 describes.
C9_HoldsForMonthDayYear ==
    locale = "en-US" => TimeSeriesAsClaimed(anomalies, locale, getTimeSeriesData(anomalies, locale))

(***************************************************************************)
(* Claims about the drill-down filters (checked under Spec)                *)
(***************************************************************************)
\* The count shown for this service in the service chart (0 when it has no bar).
ShownServiceCount(data, name) ==
    IF \E i \in DOMAIN data : data[i].service = name
    THEN data[CHOOSE i \in DOMAIN data : data[i].service = name].count
    ELSE 0

svcBilling == <<"b", "i", "l", "l", "i", "n", "g">>

msgFatalException == <<"f", "a", "t", "a", "l", " ", "e", "x", "c", "e", "p", "t", "i", "o", "n", " ", "i", "n", " ", "h", "a", "n", "d", "l", "e", "r">>
msgOk == <<"o", "k">>
msgConnectionUnavailable == <<"c", "o", "n", "n", "e", "c", "t", "i", "o", "n", " ", "u", "n", "a", "v", "a", "i", "l", "a", "b", "l", "e">>

\* The scenario's records; the scenario leaves isAnomaly open, so the backend
\* may serve either value.
ScenarioRecord(i, flag) ==
    LET base == CASE i = 1 -> [LogEntry(1, svcAuth, msgFatalException, At(2026, 11, 7, 9)) EXCEPT !.score = -60]
                  [] i = 2 -> [LogEntry(2, svcAuth, msgOk, At(2026, 11, 7, 10)) EXCEPT !.score = 20]
                  [] i = 3 -> [LogEntry(3, svcBilling, msgConnectionUnavailable, At(2026, 11, 8, 9)) EXCEPT !.score = -10]
    IN  [base EXCEPT !.isAnomaly = flag]

ScenarioRecords == { ScenarioRecord(i, flag) : i \in 1..3, flag \in BOOLEAN }

\* What api.getAnomalies() can resolve to: scenario records in any order, no
\* record twice.
ScenarioSnapshots ==
    { q \in SeqsUpTo(ScenarioRecords, 3) :
        \A i, j \in DOMAIN q : q[i].id = q[j].id => i = j }

NextScenario ==
    \/ Mount
    \/ ClickRefresh
    \/ ClickRetry
    \/ \E k \in 1..pending, data \in ScenarioSnapshots : fetchAnomaliesResolved(k, data)
    \/ \E k \in 1..pending : fetchAnomaliesRejected(k)
    \/ ClickServiceBar
    \/ ClickCategorySlice
    \/ ClickLogCard
    \/ CloseModal

SpecScenario == Init /\ [][NextScenario]_vars

\* The snapshot held is the scenario's input: its three records in order.
ScenarioInputHeld ==
    /\ Len(anomalies) = 3
    /\ \A i \in 1..3 : anomalies[i].id = i

\* The tiers the log detail modal shows for the records of the snapshot.
SeverityTiersOf(anoms) ==
    Tuple([i \in DOMAIN anoms |-> getSeverity(anoms[i].score, anoms[i].isAnomaly).level], Len(anoms))

\* The category and service aggregates the scenario states.
ScenarioAggregates ==
    LET categoryData == getCategoryData(anomalies)
    IN  /\ Len(categoryData) = 3
        /\ {categoryData[i] : i \in DOMAIN categoryData}
             = { [name |-> "Errors", value |-> 1], [name |-> "Other", value |-> 1],
                 [name |-> "Connection Issues", value |-> 1] }
        /\ getServiceData(anomalies)
             = << [service |-> svcAuth, count |-> 2], [service |-> svcBilling, count |-> 1] >>

\* C11 (as claimed): for the scenario's three records the severity tiers are
\* [critical, normal, low], the category aggregate is {Errors: 1, Other: 1,
\* Connection Issues: 1} and the service aggregate is [{auth, 2}, {billing, 1}].
C11_EndToEndScenario ==
    ScenarioInputHeld =>
        /\ SeverityTiersOf(anomalies) = <<"critical", "normal", "low">>
        /\ ScenarioAggregates

\* C11 (amended): for the scenario's three records the severity tiers are
\* [critical, normal, moderate] (-0.1 is below -0.05), the category aggregate
\* is {Errors: 1, Other: 1, Connection Issues: 1} and the service aggregate is
\* [{auth, 2}, {billing, 1}].
C11_EndToEndScenarioAmended ==
    ScenarioInputHeld =>
        /\ SeverityTiersOf(anomalies) = <<"critical", "normal", "moderate">>
        /\ ScenarioAggregates

\* The charts are drawn from the scenario's input.
C11_Witness == ChartsShown /\ ScenarioInputHeld

(***************************************************************************)
(* Claims about fetches, refreshes and failures (checked under Spec)       *)
(***************************************************************************)
\* C12 (as claimed): whenever the charts are shown, every record of the
\* filtered list shown under them is a record of the snapshot held, so no
\* record of a superseded snapshot remains in filteredLogs after a refresh.
C12_RefreshInvalidatesFilter ==
    ChartsShown =>
        \A k \in DOMAIN filteredLogs : \E i \in DOMAIN anomalies : anomalies[i] = filteredLogs[k]

\* C13: a step on which a fetch fails leaves the page in the error view with
\* its Retry button, loading false, the snapshot and the filtered list as they
\* were and no call in flight; from the error view a call is started only by
\* a click on Retry; a step on which a fetch succeeds clears the error and
\* replaces the snapshot by the data received.
C13_FailedFetchIsRetryable ==
    [][ /\ lastOp'.op = "fetchAnomaliesRejected" =>
              /\ ErrorShown'
              /\ error' = FetchError
              /\ loading' = FALSE
              /\ anomalies' = anomalies
              /\ filteredLogs' = filteredLogs
              /\ pending' = 0
        /\ (ErrorShown /\ pending' > pending) =>
              lastOp' = [op |-> "fetchAnomalies", arg |-> "Retry"]
        /\ lastOp'.op = "fetchAnomaliesResolved" =>
              /\ error' = Null
              /\ anomalies' = lastOp'.arg.data
      ]_vars

\* A refresh has failed while a snapshot and a filtered list were held.
C13_Witness ==
    /\ lastOp.op = "fetchAnomaliesRejected"
    /\ ErrorShown
    /\ Len(anomalies) > 0
    /\ Len(filteredLogs) > 0

(***************************************************************************)
(* The isAnomaly argument of getSeverity (checked under SpecSev)           *)
(***************************************************************************)
\* C14: the tier getSeverity returned for the score (level, label and style
\* tokens) is the tier it returns for that score with either value of
\* isAnomaly.
C14_TierIgnoresIsAnomaly ==
    lastOp.op = "getSeverity" =>
        \A flag \in BOOLEAN : getSeverity(score, flag) = severity

\* A record that is not flagged as an anomaly was given the critical tier.
C14_Witness ==
    /\ lastOp.op = "getSeverity"
    /\ isAnomaly = FALSE
    /\ severity = SevCritical

(***************************************************************************)
(* SpecRace: the page when fetchAnomalies is also called while an earlier  *)
(* call is still in flight                                                 *)
(***************************************************************************)
MaxInFlight == 2    \* api.getAnomalies() calls in flight at once
MaxRaceLen == 1     \* records of a snapshot served while calls race

\* What api.getAnomalies() can resolve to while calls race.
RaceSnapshots == { q \in BackendSnapshots : Len(q) <= MaxRaceLen }

\* fetchAnomalies called again before an earlier call has settled; the
\* function itself tests nothing before it calls api.getAnomalies().
StartConcurrentFetch ==
    /\ mounted
    /\ pending \in 1..(MaxInFlight - 1)
    /\ UNCHANGED mounted
    /\ fetchAnomalies("concurrent")

NextRace ==
    \/ Mount
    \/ StartConcurrentFetch
    \/ ClickRefresh
    \/ ClickRetry
    \/ \E k \in 1..pending, data \in RaceSnapshots : fetchAnomaliesResolved(k, data)
    \/ \E k \in 1..pending : fetchAnomaliesRejected(k)
    \/ ClickServiceBar
    \/ ClickCategorySlice
    \/ ClickLogCard
    \/ CloseModal

SpecRace == Init /\ [][NextRace]_vars

\* C15: calls started one before the other settles may settle in either
\* order; each call that resolves writes its own data, a null error and
\* loading false, each call that fails writes the error and loading false,
\* whether or not a call started after it has already settled, and no other
\* step writes the snapshot or the error; so what is visible once all have
\* settled is what the call that settled last wrote.
C15_LastSettledWins ==
    [][ /\ lastOp'.op = "fetchAnomaliesResolved" =>
              /\ anomalies' = lastOp'.arg.data
              /\ error' = Null
              /\ loading' = FALSE
        /\ lastOp'.op = "fetchAnomaliesRejected" =>
              /\ anomalies' = anomalies
              /\ error' = FetchError
              /\ loading' = FALSE
        /\ lastOp'.op \notin {"fetchAnomaliesResolved", "fetchAnomaliesRejected"} =>
              /\ anomalies' = anomalies
              /\ error' = error
              /\ (loading' # loading => lastOp'.op = "fetchAnomalies")
      ]_vars

\* Two calls were in flight, the one started last settled first, and the
\* response of the one started first has now replaced what it wrote: the
\* charts are drawn from the stale response.
C15_Witness ==
    /\ lastOp.op = "fetchAnomaliesResolved"
    /\ lastOp.arg.stale
    /\ pending = 0
    /\ ChartsShown
    /\ anomalies = lastOp.arg.data

(***************************************************************************)
(* The page's own controls and calls in flight (checked under Spec)        *)
(***************************************************************************)
\* C16: a click on Refresh or Retry happens only while loading is false;
\* the step that starts a call sets loading, and loading stays true while the
\* call is in flight and goes false only on the step on which it settles; so
\* at most one call is in flight at any time, and a click on a chart bucket
\* happens only while no call is in flight.
C16_OneFetchInFlight ==
    /\ [](pending <= 1 /\ (pending > 0 => loading))
    /\ [][ /\ lastOp'.op = "fetchAnomalies" =>
                 /\ loading'
                 /\ pending = 0
                 /\ lastOp'.arg \in {"Refresh", "Retry"} => ~loading
           /\ (loading /\ ~loading') =>
                 lastOp'.op \in {"fetchAnomaliesResolved", "fetchAnomaliesRejected"}
           /\ lastOp'.op \in {"handleServiceClick", "handleCategoryClick"} =>
                 pending = 0 /\ pending' = 0
         ]_vars

\* A refresh is in flight: the snapshot held has buckets, but the loading
\* view is what the page renders.
C16_Witness ==
    /\ lastOp = [op |-> "fetchAnomalies", arg |-> "Refresh"]
    /\ pending = 1
    /\ loading
    /\ Len(anomalies) > 0

(***************************************************************************)
(* The category drill-down against the category aggregate (checked under   *)
(* SpecAgg)                                                                *)
(***************************************************************************)
\* Keys that are not category names (the comparison is case-sensitive).
ForeignKeys == {"", "errors", "Error", "Timeout", "Connection", "Unknown", "Others"}

\* The list handleCategoryClick's filter returns for the key.
FilteredByCategory(anoms, key) == SelectSeq(anoms, LAMBDA a : CategoryFilter(a, key))

\* C17: for the snapshot held and every category c, every record the category
\* aggregate counts in bucket c passes the drill-down filter for c, so the
\* filtered list is at least as long as the bucket's count; after a click on
\* bucket c those records are in filteredLogs; and the filter returns the
\* empty list for a key that is not a category name.
C17_FilterCoversBucket ==
    LET categoryData == getCategoryData(anomalies)
    IN  /\ \A i \in DOMAIN anomalies :
              CategoryFilter(anomalies[i], CategoryOfMessage(anomalies[i].message))
        /\ \A c \in Categories :
              Len(FilteredByCategory(anomalies, c)) >= CategoryCount(categoryData, c)
        /\ lastOp.op = "handleCategoryClick" =>
              /\ \A i \in DOMAIN anomalies :
                    CategoryOfMessage(anomalies[i].message) = lastOp.arg =>
                        \E k \in DOMAIN filteredLogs : filteredLogs[k] = anomalies[i]
              /\ Len(filteredLogs) >= CategoryCount(categoryData, lastOp.arg)
        /\ \A key \in ForeignKeys : FilteredByCategory(anomalies, key) = <<>>

\* A click on a bucket has listed every record the bucket counts and one
\* more that the aggregate counts elsewhere.
C17_Witness ==
    /\ lastOp.op = "handleCategoryClick"
    /\ CategoryCount(getCategoryData(anomalies), lastOp.arg) > 0
    /\ Len(filteredLogs) > CategoryCount(getCategoryData(anomalies), lastOp.arg)

====
